---- MODULE Spec2Model ----
(***************************************************************************)
(* Model of power_system_simulation/graph_processing.py: the construction  *)
(* (validation) of a GraphProcessor and its two queries,                   *)
(* find_downstream_vertices and find_alternative_edges.                    *)
(*                                                                         *)
(* numpy arrays are sequences; edge_vertex_id_pairs is a sequence of       *)
(* 2-tuples <<pair[0], pair[1]>> (TLA+ index 1 is Python index 0).          *)
(* A networkx Graph is a record [nodes, edges]: a set of nodes and a set   *)
(* of undirected edges, each edge the set of its endpoints (a self-loop is *)
(* a one-element set).  nx.Graph keeps one edge per vertex pair.           *)
(***************************************************************************)
EXTENDS Integers, Sequences, FiniteSets

VARIABLES vertex_ids, edge_ids, edge_vertex_id_pairs, edge_enabled,
          source_vertex_id, graph_cycles, graph_connection,
          pc, raised, call, result,
          first_call, first_result, others,
          pgm_pc, pgm_args, pgm_raised, pgm_steps,
          n1_pc, line_id_disconnect, n1_raised, line_status, n1_start,
          alternative_lines, n1_asked, n1_updates, n1_runs, result_table

vars == <<vertex_ids, edge_ids, edge_vertex_id_pairs, edge_enabled,
          source_vertex_id, graph_cycles, graph_connection,
          pc, raised, call, result,
          first_call, first_result, others,
          pgm_pc, pgm_args, pgm_raised, pgm_steps,
          n1_pc, line_id_disconnect, n1_raised, line_status, n1_start,
          alternative_lines, n1_asked, n1_updates, n1_runs, result_table>>

\* The GraphProcessor's fields.  first_call, first_result and others record
\* the history of the queries: the first query made on the object, what it
\* gave, and whether a different query has been made since.
fields == <<vertex_ids, edge_ids, edge_vertex_id_pairs, edge_enabled,
            source_vertex_id, graph_cycles, graph_connection>>
history == <<first_call, first_result, others>>

\* pgm_calculation: where the call stands, its arguments (what the files
\* hold), what it raised, and the library calls it has made, in order.
pgm == <<pgm_pc, pgm_args, pgm_raised, pgm_steps>>

\* n_1_calc: where n_1_calculation stands, its argument, what it raised, the
\* status of each line in model_n1 now and when the call began, what
\* find_alternative_edges gave and whether it was called, the update_model
\* calls made (<<line id, status>>, in order), the power-flow runs made (the
\* alternative being tried and the line statuses at the run, in order), and
\* the alternative of each row of the table returned.
n1 == <<n1_pc, line_id_disconnect, n1_raised, line_status, n1_start,
        alternative_lines, n1_asked, n1_updates, n1_runs, result_table>>

---------------------------------------------------------------------------
(* Bounds of the model and the pools the inputs are drawn from.            *)

MaxEdges == 2

SetOf(s) == {s[i] : i \in DOMAIN s}

\* The ids an endpoint or a vertex can be.
VertexIdPool == {0, 1, 2}

\* vertex_ids: every subset of the pool, and two arrays with a repeated id.
\* (The constructor reads vertex_ids through membership and length only.)
VertexIdInputs ==
    {<<>>, <<0>>, <<1>>, <<2>>, <<0, 1>>, <<0, 2>>, <<1, 2>>, <<0, 1, 2>>,
     <<0, 0>>, <<0, 1, 1>>}

\* edge_ids of each length up to MaxEdges: distinct ids 3, 4, ...; the same
\* with the last id 2 (a vertex id whenever vertex_ids holds 2); the same
\* with the last id repeating the first.
EdgeIdInputs ==
    UNION {{[i \in 1..n |-> 2 + i],
            [i \in 1..n |-> IF i = n THEN 2 ELSE 2 + i],
            [i \in 1..n |-> IF i = n THEN 3 ELSE 2 + i]} : n \in 0..MaxEdges}

\* edge_vertex_id_pairs and edge_enabled for n edge ids: every array of
\* length n, and one array of each other length up to MaxEdges (the
\* constructor compares the lengths before it reads either array).
PairInputs(n) ==
    [1..n -> VertexIdPool \X VertexIdPool]
        \cup {[i \in 1..k |-> <<0, 0>>] : k \in (0..MaxEdges) \ {n}}
EnabledInputs(n) ==
    [1..n -> BOOLEAN] \cup {[i \in 1..k |-> TRUE] : k \in (0..MaxEdges) \ {n}}
SourcePool == {0, 2}

\* The arguments of the queries: a vertex id, ids that may be edge ids, and
\* an id that is never in any array.
QueryPool == {0, 2, 3, 4, 9}

---------------------------------------------------------------------------
(* Values.                                                                 *)

\* The absence of an id (a message that names none, a call not yet made).
NoValue == 0 - 1

NoError == [kind |-> "none", value |-> NoValue]
Error(kind, value) == [kind |-> kind, value |-> value]

NoCall == [op |-> "none", arg |-> NoValue]
\* What a call gave: nothing yet ("none"), Python's None ("None"), a list
\* ("list", in value) or an exception ("raise", its class in error).
NoResult == [kind |-> "none", value |-> <<>>, error |-> "none"]
ReturnedNone == [kind |-> "None", value |-> <<>>, error |-> "none"]

\* pgm_calculation not called.
NoPgmArgs ==
    [input_valid |-> TRUE, batch_valid |-> TRUE,
     active_columns |-> <<>>, reactive_columns |-> <<>>,
     active_index |-> <<>>, reactive_index |-> <<>>]
PgmIdle ==
    /\ pgm_pc = "idle"
    /\ pgm_args = NoPgmArgs
    /\ pgm_raised = NoError
    /\ pgm_steps = <<>>

\* No n_1_calc set up.
N1Idle ==
    /\ n1_pc = "idle"
    /\ line_id_disconnect = NoValue
    /\ n1_raised = NoError
    /\ line_status = <<>>
    /\ n1_start = <<>>
    /\ alternative_lines = NoResult
    /\ n1_asked = FALSE
    /\ n1_updates = <<>>
    /\ n1_runs = <<>>
    /\ result_table = <<>>

---------------------------------------------------------------------------
(* networkx.                                                               *)

EmptyGraph == [nodes |-> {}, edges |-> {}]

\* nx.Graph.add_edge(u, v): both endpoints become nodes, and the edge is
\* stored once per unordered vertex pair.
add_edge(G, u, v) == [nodes |-> G.nodes \cup {u, v}, edges |-> G.edges \cup {{u, v}}]

Neighbours(edges, n) == UNION {e : e \in {x \in edges : n \in x}}

RECURSIVE PlainBfs(_, _)
PlainBfs(edges, seen) ==
    LET next == seen \cup UNION {Neighbours(edges, n) : n \in seen}
    IN  IF next = seen THEN seen ELSE PlainBfs(edges, next)

\* nx.is_connected(G): raises NetworkXPointlessConcept on the null graph,
\* otherwise a search from an arbitrary node reaches every node of G.
is_connected(G) ==
    IF G.nodes = {} THEN "NetworkXPointlessConcept"
    ELSE LET start == CHOOSE n \in G.nodes : TRUE
         IN  IF PlainBfs(G.edges, {start}) = G.nodes THEN "True" ELSE "False"

\* nx.find_cycle(G) returns a cycle (TRUE here) or raises NetworkXNoCycle
\* (FALSE here).  An edge closes a cycle when it is a self-loop or when its
\* endpoints are still joined once it is left out.
find_cycle(G) ==
    \E e \in G.edges :
        \/ Cardinality(e) = 1
        \/ \E u \in e : (e \ {u}) \subseteq PlainBfs(G.edges \ {e}, {u})

---------------------------------------------------------------------------
(* GraphProcessor.__init__: the checks, in the order of the code.          *)

\* any(np.isin(vertex_ids, edge_ids))
any_isin(v, e) == \E i \in DOMAIN v : \E j \in DOMAIN e : v[i] = e[j]

\* len(x) != len(set(x))
HasDuplicates(s) == Len(s) # Cardinality(SetOf(s))

\* for i in vertex_ids: if i in edge_ids (the value the message names is the
\* first such vertex id)
RECURSIVE FirstVertexInEdgeIds(_, _, _)
FirstVertexInEdgeIds(v, e, i) ==
    IF i > Len(v) THEN NoValue
    ELSE IF v[i] \in SetOf(e) THEN v[i]
    ELSE FirstVertexInEdgeIds(v, e, i + 1)

\* PairMissingId with the inner test dropped: the first element is named
\* whichever endpoint is absent.
PairMissingIdAlwaysFirst(pair, v) ==
    IF pair[1] \notin SetOf(v) \/ pair[2] \notin SetOf(v) THEN pair[1] ELSE NoValue

\* The body of the loop over edge_vertex_id_pairs for one pair: the id the
\* IDNotFoundError names, or NoValue when both endpoints are vertex ids.
PairMissingId(pair, v) ==
    IF pair[1] \notin SetOf(v) \/ pair[2] \notin SetOf(v)
    THEN IF pair[1] \notin SetOf(v) THEN pair[1] ELSE pair[2]
    ELSE NoValue

\* for pair in edge_vertex_id_pairs: the first pair that raises decides.
RECURSIVE FirstMissingEndpoint(_, _, _)
FirstMissingEndpoint(pairs, v, i) ==
    IF i > Len(pairs) THEN NoValue
    ELSE IF PairMissingId(pairs[i], v) # NoValue THEN PairMissingId(pairs[i], v)
    ELSE FirstMissingEndpoint(pairs, v, i + 1)

\* The loop that fills the two graphs: every row goes into graph_connection,
\* the rows whose edge_enabled[i] is true also into graph_cycles.
RECURSIVE BuildGraphs(_, _, _, _, _)
BuildGraphs(pairs, enabled, i, gcyc, gcon) ==
    IF i > Len(pairs) THEN [graph_cycles |-> gcyc, graph_connection |-> gcon]
    ELSE BuildGraphs(pairs, enabled, i + 1,
                     IF enabled[i] THEN add_edge(gcyc, pairs[i][1], pairs[i][2]) ELSE gcyc,
                     add_edge(gcon, pairs[i][1], pairs[i][2]))

Unbuilt == [graph_cycles |-> EmptyGraph, graph_connection |-> EmptyGraph]

\* The checks on the two graphs (is_connected, then find_cycle inside
\* try/except/else).
GraphChecks(g) ==
    LET conn == is_connected(g.graph_connection)
    IN  IF conn = "NetworkXPointlessConcept" THEN Error("NetworkXPointlessConcept", NoValue)
        ELSE IF conn = "False" THEN Error("GraphNotFullyConnectedError", NoValue)
        ELSE IF find_cycle(g.graph_cycles) THEN Error("GraphCycleError", NoValue)
        ELSE NoError

\* The whole constructor: what it raises (NoError when it returns) and the
\* graphs it has built by then.
GraphProcessor_init(v, e, pairs, enabled, s) ==
    IF any_isin(v, e) THEN [raised |-> Error("IDNotUniqueError", NoValue), g |-> Unbuilt]
    ELSE IF HasDuplicates(v) THEN [raised |-> Error("IDNotUniqueError", NoValue), g |-> Unbuilt]
    ELSE IF HasDuplicates(e) THEN [raised |-> Error("IDNotUniqueError", NoValue), g |-> Unbuilt]
    ELSE IF HasDuplicates(e) THEN [raised |-> Error("IDNotUniqueError", NoValue), g |-> Unbuilt]
    ELSE IF FirstVertexInEdgeIds(v, e, 1) # NoValue
         THEN [raised |-> Error("IDNotUniqueError", FirstVertexInEdgeIds(v, e, 1)), g |-> Unbuilt]
    ELSE IF Len(e) # Len(pairs)
         THEN [raised |-> Error("InputLengthDoesNotMatchError", NoValue), g |-> Unbuilt]
    ELSE IF FirstMissingEndpoint(pairs, v, 1) # NoValue
         THEN [raised |-> Error("IDNotFoundError", FirstMissingEndpoint(pairs, v, 1)), g |-> Unbuilt]
    ELSE IF Len(enabled) # Len(e)
         THEN [raised |-> Error("InputLengthDoesNotMatchError", NoValue), g |-> Unbuilt]
    ELSE IF s \notin SetOf(v)
         THEN [raised |-> Error("IDNotFoundError", NoValue), g |-> Unbuilt]
    ELSE LET g == BuildGraphs(pairs, enabled, 1, EmptyGraph, EmptyGraph)
         IN  [raised |-> GraphChecks(g), g |-> g]

---------------------------------------------------------------------------
(* The queries.  Both bodies are `pass`: whatever the argument, the call   *)
(* changes nothing, raises nothing and returns None.                       *)

find_downstream_vertices(edge_id) == ReturnedNone

find_alternative_edges(disabled_edge_id) == ReturnedNone

---------------------------------------------------------------------------
(* The state machine.                                                      *)

Init ==
    /\ vertex_ids = <<>>
    /\ edge_ids = <<>>
    /\ edge_vertex_id_pairs = <<>>
    /\ edge_enabled = <<>>
    /\ source_vertex_id = NoValue
    /\ graph_cycles = EmptyGraph
    /\ graph_connection = EmptyGraph
    /\ pc = "new"
    /\ raised = NoError
    /\ call = NoCall
    /\ result = NoResult
    /\ first_call = NoCall
    /\ first_result = NoResult
    /\ others = FALSE
    /\ PgmIdle
    /\ N1Idle

\* GraphProcessor(vertex_ids, edge_ids, edge_vertex_id_pairs, edge_enabled,
\* source_vertex_id): the five fields are assigned first, then the checks run.
Construct ==
    /\ pc = "new"
    /\ \E v \in VertexIdInputs, e \in EdgeIdInputs, s \in SourcePool :
       \E pairs \in PairInputs(Len(e)), enabled \in EnabledInputs(Len(e)) :
            LET r == GraphProcessor_init(v, e, pairs, enabled, s)
            IN  /\ vertex_ids' = v
                /\ edge_ids' = e
                /\ edge_vertex_id_pairs' = pairs
                /\ edge_enabled' = enabled
                /\ source_vertex_id' = s
                /\ graph_cycles' = r.g.graph_cycles
                /\ graph_connection' = r.g.graph_connection
                /\ raised' = r.raised
                /\ pc' = IF r.raised = NoError THEN "constructed" ELSE "failed"
    /\ UNCHANGED <<call, result, history, pgm, n1>>

\* find_downstream_vertices(edge_id) on a constructed GraphProcessor.
DownstreamCall ==
    /\ pc = "constructed"
    /\ \E edge_id \in QueryPool :
        /\ call' = [op |-> "find_downstream_vertices", arg |-> edge_id]
        /\ result' = find_downstream_vertices(edge_id)
    /\ UNCHANGED <<fields, pc, raised>>

\* find_alternative_edges that opens the edge it is asked about and leaves
\* it open.
AlternativeCallOpening ==
    /\ pc = "constructed"
    /\ \E disabled_edge_id \in QueryPool :
        /\ call' = [op |-> "find_alternative_edges", arg |-> disabled_edge_id]
        /\ result' = find_alternative_edges(disabled_edge_id)
        /\ edge_enabled' = [i \in DOMAIN edge_enabled |->
                                edge_enabled[i] /\ edge_ids[i] # disabled_edge_id]
    /\ UNCHANGED <<vertex_ids, edge_ids, edge_vertex_id_pairs,
                   source_vertex_id, graph_cycles, graph_connection, pc, raised>>

\* find_alternative_edges(disabled_edge_id) on a constructed GraphProcessor.
AlternativeCall ==
    /\ pc = "constructed"
    /\ \E disabled_edge_id \in QueryPool :
        /\ call' = [op |-> "find_alternative_edges", arg |-> disabled_edge_id]
        /\ result' = find_alternative_edges(disabled_edge_id)
    /\ UNCHANGED <<fields, pc, raised>>

FindDownstreamVertices == DownstreamCall /\ UNCHANGED <<history, pgm, n1>>

FindAlternativeEdges == AlternativeCall /\ UNCHANGED <<history, pgm, n1>>

Next == Construct \/ FindDownstreamVertices \/ FindAlternativeEdges

Spec == Init /\ [][Next]_vars

---------------------------------------------------------------------------
(* Sequences of queries on one GraphProcessor, with their history.         *)

\* Every GraphProcessor the constructor returns for the inputs of Construct.
InitConstructed ==
    /\ vertex_ids \in VertexIdInputs
    /\ edge_ids \in EdgeIdInputs
    /\ source_vertex_id \in SourcePool
    /\ edge_vertex_id_pairs \in PairInputs(Len(edge_ids))
    /\ edge_enabled \in EnabledInputs(Len(edge_ids))
    /\ LET r == GraphProcessor_init(vertex_ids, edge_ids, edge_vertex_id_pairs,
                                    edge_enabled, source_vertex_id)
       IN  /\ r.raised = NoError
           /\ graph_cycles = r.g.graph_cycles
           /\ graph_connection = r.g.graph_connection
    /\ pc = "constructed"
    /\ raised = NoError
    /\ call = NoCall
    /\ result = NoResult
    /\ first_call = NoCall
    /\ first_result = NoResult
    /\ others = FALSE
    /\ PgmIdle
    /\ N1Idle

\* The history of the queries, brought up to date by a query.
Record ==
    /\ first_call' = IF first_call = NoCall THEN call' ELSE first_call
    /\ first_result' = IF first_call = NoCall THEN result' ELSE first_result
    /\ others' = (others \/ (first_call # NoCall /\ call' # first_call))

QueryDownstreamVertices == DownstreamCall /\ Record /\ UNCHANGED <<pgm, n1>>

QueryAlternativeEdges == AlternativeCall /\ Record /\ UNCHANGED <<pgm, n1>>

NextQueries == QueryDownstreamVertices \/ QueryAlternativeEdges

SpecQueries == InitConstructed /\ [][NextQueries]_vars

---------------------------------------------------------------------------
(* PGM_calculation_module.pgm_calculation.                                 *)
(* A profile is a pandas DataFrame: its columns are the load ids, its      *)
(* index the timestamps.  Whether the network data and the batch data are  *)
(* valid is decided by power-grid-model and is an input here.              *)

MaxLoads == 2
MaxTimestamps == 2
LoadIdPool == {8, 9}
TimestampPool == {0, 1}

Arrays(S, n) == UNION {[1..k -> S] : k \in 0..n}

\* (a != b).any() on two pandas Index objects: comparing Index objects of
\* different lengths raises ValueError, otherwise the comparison is
\* element by element.
columns_differ(a, b) ==
    IF Len(a) # Len(b) THEN "ValueError"
    ELSE IF \E i \in DOMAIN a : a[i] # b[i] THEN "True"
    ELSE "False"

\* a.equals(b) on two pandas Index objects: the same elements in the same
\* order.
index_equals(a, b) == a = b

\* The function up to the point it raises or returns: the error (NoError on
\* return; value tells the two ProfilesNotMatchingError messages apart, 1 for
\* the load ids, 2 for the timestamps) and the library calls made.
pgm_calculation(args) ==
    IF ~args.input_valid
    THEN [raised |-> Error("ValidationException", NoValue),
          steps |-> <<"assert_valid_input_data">>]
    ELSE IF columns_differ(args.active_columns, args.reactive_columns) = "ValueError"
    THEN [raised |-> Error("ValueError", NoValue),
          steps |-> <<"assert_valid_input_data", "PowerGridModel">>]
    ELSE IF columns_differ(args.active_columns, args.reactive_columns) = "True"
    THEN [raised |-> Error("ProfilesNotMatchingError", 1),
          steps |-> <<"assert_valid_input_data", "PowerGridModel">>]
    ELSE IF ~index_equals(args.active_index, args.reactive_index)
    THEN [raised |-> Error("ProfilesNotMatchingError", 2),
          steps |-> <<"assert_valid_input_data", "PowerGridModel">>]
    ELSE IF ~args.batch_valid
    THEN [raised |-> Error("ValidationException", NoValue),
          steps |-> <<"assert_valid_input_data", "PowerGridModel",
                      "initialize_array", "assert_valid_batch_data">>]
    ELSE [raised |-> NoError,
          steps |-> <<"assert_valid_input_data", "PowerGridModel",
                      "initialize_array", "assert_valid_batch_data",
                      "calculate_power_flow">>]

InitPgm ==
    /\ vertex_ids = <<>>
    /\ edge_ids = <<>>
    /\ edge_vertex_id_pairs = <<>>
    /\ edge_enabled = <<>>
    /\ source_vertex_id = NoValue
    /\ graph_cycles = EmptyGraph
    /\ graph_connection = EmptyGraph
    /\ pc = "new"
    /\ raised = NoError
    /\ call = NoCall
    /\ result = NoResult
    /\ first_call = NoCall
    /\ first_result = NoResult
    /\ others = FALSE
    /\ PgmIdle
    /\ N1Idle

PgmCalculation ==
    /\ pgm_pc = "idle"
    /\ \E input_valid \in BOOLEAN, batch_valid \in BOOLEAN,
          active_columns \in Arrays(LoadIdPool, MaxLoads),
          reactive_columns \in Arrays(LoadIdPool, MaxLoads),
          active_index \in Arrays(TimestampPool, MaxTimestamps),
          reactive_index \in Arrays(TimestampPool, MaxTimestamps) :
            LET args == [input_valid |-> input_valid, batch_valid |-> batch_valid,
                         active_columns |-> active_columns,
                         reactive_columns |-> reactive_columns,
                         active_index |-> active_index,
                         reactive_index |-> reactive_index]
                r == pgm_calculation(args)
            IN  /\ pgm_args' = args
                /\ pgm_raised' = r.raised
                /\ pgm_steps' = r.steps
                /\ pgm_pc' = IF r.raised = NoError THEN "returned" ELSE "raised"
    /\ UNCHANGED <<fields, pc, raised, call, result, history, n1>>

NextPgm == PgmCalculation

SpecPgm == InitPgm /\ [][NextPgm]_vars

---------------------------------------------------------------------------
(* What the claims speak of, stated on the constructor's arguments (the    *)
(* five fields), independently of the graphs the constructor builds.       *)

V == SetOf(vertex_ids)

Constructed == pc = "constructed"
ConstructionEnded == pc \in {"constructed", "failed"}

\* The vertices joined to a vertex of S by the edges whose indices are in idx.
RECURSIVE Joined(_, _)
Joined(idx, S) ==
    LET next == S \cup {edge_vertex_id_pairs[i][1] :
                            i \in {j \in idx : edge_vertex_id_pairs[j][2] \in S}}
                  \cup {edge_vertex_id_pairs[i][2] :
                            i \in {j \in idx : edge_vertex_id_pairs[j][1] \in S}}
    IN  IF next = S THEN S ELSE Joined(idx, next)

AllIdx == DOMAIN edge_vertex_id_pairs
EnabledIdx == {i \in AllIdx : edge_enabled[i]}
DisabledIdx == {i \in AllIdx : ~edge_enabled[i]}

Rule1 == V \cap SetOf(edge_ids) # {}
Rule2 == \E i, j \in DOMAIN vertex_ids : i < j /\ vertex_ids[i] = vertex_ids[j]
Rule3 == \E i, j \in DOMAIN edge_ids : i < j /\ edge_ids[i] = edge_ids[j]
Rule4 == Len(edge_ids) # Len(edge_vertex_id_pairs)
EndpointAbsent(i) ==
    edge_vertex_id_pairs[i][1] \notin V \/ edge_vertex_id_pairs[i][2] \notin V
Rule5 == \E i \in AllIdx : EndpointAbsent(i)
Rule6 == Len(edge_enabled) # Len(edge_ids)
Rule7 == source_vertex_id \notin V
Rules1to4 == Rule1 \/ Rule2 \/ Rule3 \/ Rule4
Rules1to7 == Rules1to4 \/ Rule5 \/ Rule6 \/ Rule7
\* Rules 8 and 9 are read only where rules 1-7 hold (the arrays line up).
\* Rule 8: some vertex id is not joined to some other by the edges, enabled
\* or not.  Rule 9: some enabled edge is a self-loop, or its endpoints stay
\* joined by the other enabled edges (each edge counted on its own).
Rule8 == \E a \in V : Joined(AllIdx, {a}) # V
Rule9 ==
    \E i \in EnabledIdx :
        \/ edge_vertex_id_pairs[i][1] = edge_vertex_id_pairs[i][2]
        \/ edge_vertex_id_pairs[i][2]
              \in Joined(EnabledIdx \ {i}, {edge_vertex_id_pairs[i][1]})
Rules1to8 == Rules1to7 \/ Rule8
Rules1to9 == Rules1to8 \/ Rule9

\* The error of the lowest-numbered violated rule ("none" when none is).
FirstViolatedRuleError ==
    IF Rule1 \/ Rule2 \/ Rule3 THEN "IDNotUniqueError"
    ELSE IF Rule4 THEN "InputLengthDoesNotMatchError"
    ELSE IF Rule5 THEN "IDNotFoundError"
    ELSE IF Rule6 THEN "InputLengthDoesNotMatchError"
    ELSE IF Rule7 THEN "IDNotFoundError"
    ELSE IF Rule8 THEN "GraphNotFullyConnectedError"
    ELSE IF Rule9 THEN "GraphCycleError"
    ELSE "none"

Taxonomy ==
    {"IDNotUniqueError", "InputLengthDoesNotMatchError", "IDNotFoundError",
     "GraphNotFullyConnectedError", "GraphCycleError"}

\* The query in call, and the edge it names.
IsEdgeId(id) == id \in SetOf(edge_ids)
IndexOf(id) == CHOOSE i \in DOMAIN edge_ids : edge_ids[i] = id
Called(op) == Constructed /\ call.op = op
CalledOnEdge(op) == Called(op) /\ IsEdgeId(call.arg)
CalledOnEnabledEdge(op) == CalledOnEdge(op) /\ edge_enabled[IndexOf(call.arg)]
CalledOnDisabledEdge(op) == CalledOnEdge(op) /\ ~edge_enabled[IndexOf(call.arg)]

\* The active view is a spanning tree: acyclic, and it joins every vertex
\* to the source.
ActiveViewIsSpanningTree == ~Rule9 /\ Joined(EnabledIdx, {source_vertex_id}) = V

\* The vertices the source no longer reaches once edge i is left out.
DownstreamOf(i) == V \ Joined(EnabledIdx \ {i}, {source_vertex_id})

IsListOfSet(l, S) ==
    /\ SetOf(l) = S
    /\ Len(l) = Cardinality(S)

\* The two sides of the cut that leaving out edge i makes, and the disabled
\* edges with one endpoint on each side.
SideOf(i, k) == Joined(EnabledIdx \ {i}, {edge_vertex_id_pairs[i][k]})
Crosses(j, i) ==
    \/ /\ edge_vertex_id_pairs[j][1] \in SideOf(i, 1)
       /\ edge_vertex_id_pairs[j][2] \in SideOf(i, 2)
    \/ /\ edge_vertex_id_pairs[j][1] \in SideOf(i, 2)
       /\ edge_vertex_id_pairs[j][2] \in SideOf(i, 1)
AlternativesOf(i) == {edge_ids[j] : j \in {k \in DisabledIdx : Crosses(k, i)}}
IsAscending(l) == \A a, b \in DOMAIN l : a < b => l[a] < l[b]

---------------------------------------------------------------------------
(* n_1_calc.n_1_calculation, on the object setup_model leaves: the graph   *)
(* of the network in input_network_array_model and the power-flow model    *)
(* model_n1, of which only the status of each line is kept.                *)

MaxLines == 3

N1VertexIdInputs == {<<0, 1>>, <<0, 1, 2>>}
N1PairPool == {p \in VertexIdPool \X VertexIdPool : p[1] <= p[2]}
N1EdgeIds(n) == [i \in 1..n |-> 2 + i]
N1LinePool == {0, 9} \cup {2 + i : i \in 1..MaxLines}

\* A line of the network description is in service exactly when the edge made
\* of it is enabled.
LineStatusOf(ids, enabled) ==
    [id \in SetOf(ids) |->
        IF enabled[CHOOSE i \in DOMAIN ids : ids[i] = id] THEN 1 ELSE 0]

RECURSIVE Ascending(_)
Ascending(S) ==
    IF S = {} THEN <<>>
    ELSE LET least == CHOOSE a \in S : \A b \in S : a <= b
         IN  <<least>> \o Ascending(S \ {least})

\* What the docstring of find_alternative_edges says the call gives.
find_alternative_edges_documented(disabled_edge_id) ==
    IF ~IsEdgeId(disabled_edge_id)
    THEN [kind |-> "raise", value |-> <<>>, error |-> "IDNotFoundError"]
    ELSE IF ~edge_enabled[IndexOf(disabled_edge_id)]
    THEN [kind |-> "raise", value |-> <<>>, error |-> "EdgeAlreadyDisabledError"]
    ELSE [kind  |-> "list",
          value |-> Ascending(AlternativesOf(IndexOf(disabled_edge_id))),
          error |-> "none"]

\* The power-flow model during one call: the status of each line, the
\* update_model calls and the power-flow runs made so far.
ModelN1(status) == [status |-> status, updates |-> <<>>, runs |-> <<>>]

\* model_n1.update_model(create_line_update_data(line_id_dis, to_status_line))
update_model(m, line_id_dis, to_status_line) ==
    [m EXCEPT !.status  = [id \in DOMAIN @ |->
                              IF id = line_id_dis THEN to_status_line ELSE @[id]],
              !.updates = Append(@, <<line_id_dis, to_status_line>>)]

run_power_flow_calculation(m) == [m EXCEPT !.runs = Append(@, m.status)]

\* The loop of lines 57-75: previous_line_id is what it is before the loop,
\* no iteration assigns it.
RECURSIVE AlternativesLoop(_, _, _, _)
AlternativesLoop(todo, previous_line_id, m, result_table_list) ==
    IF todo = <<>>
    THEN [m |-> m, table |-> result_table_list]
    ELSE LET alt_edge_id == Head(todo)
             m1 == IF previous_line_id # NoValue
                   THEN update_model(m, previous_line_id, 0)
                   ELSE m
             m2 == update_model(m1, alt_edge_id, 1)
             m3 == run_power_flow_calculation(m2)
         IN  AlternativesLoop(Tail(todo), previous_line_id, m3,
                              Append(result_table_list, alt_edge_id))

N1Outcome(err, asked, m, table) ==
    [raised |-> err, asked |-> asked, m |-> m, table |-> table]

\* What follows the two checks: alternatives is what find_alternative_edges
\* gives for the line.
N1Reconfigure(line, alternatives, m0) ==
    LET m == update_model(m0, line, 0)
    IN  IF alternatives.kind = "raise"
        THEN N1Outcome(Error(alternatives.error, line), TRUE, m, <<>>)
        ELSE IF alternatives.kind = "None"
        THEN N1Outcome(Error("TypeError", NoValue), TRUE, m, <<>>)
        ELSE LET done == AlternativesLoop(alternatives.value, NoValue, m, <<>>)
             IN  N1Outcome(NoError, TRUE, done.m, done.table)

\* n_1_calculation with the model updated before the argument is checked.
n_1_calculation_UpdateFirst(line, alternatives) ==
    LET m0 == update_model(ModelN1(line_status), line, 0)
    IN  IF line \notin SetOf(edge_ids)
        THEN N1Outcome(Error("InvalidLineIDError", line), FALSE, m0, <<>>)
        ELSE IF ~edge_enabled[IndexOf(line)]
        THEN N1Outcome(Error("LineNotConnectedError", line), FALSE, m0, <<>>)
        ELSE N1Reconfigure(line, alternatives, ModelN1(line_status))

n_1_calculation(line, alternatives) ==
    LET m0 == ModelN1(line_status)
    IN  IF line \notin SetOf(edge_ids)
        THEN N1Outcome(Error("InvalidLineIDError", line), FALSE, m0, <<>>)
        ELSE IF ~edge_enabled[IndexOf(line)]
        THEN N1Outcome(Error("LineNotConnectedError", line), FALSE, m0, <<>>)
        ELSE N1Reconfigure(line, alternatives, m0)

\* After setup_model: a graph the constructor accepted, every line of the
\* power-flow model as the network description has it.
InitN1 ==
    /\ \E v \in N1VertexIdInputs, n \in 0..MaxLines :
         \E pairs \in [1..n -> N1PairPool], enabled \in [1..n -> BOOLEAN] :
           LET r == GraphProcessor_init(v, N1EdgeIds(n), pairs, enabled, 0)
           IN  /\ r.raised = NoError
               /\ vertex_ids = v
               /\ edge_ids = N1EdgeIds(n)
               /\ edge_vertex_id_pairs = pairs
               /\ edge_enabled = enabled
               /\ source_vertex_id = 0
               /\ graph_cycles = r.g.graph_cycles
               /\ graph_connection = r.g.graph_connection
               /\ line_status = LineStatusOf(N1EdgeIds(n), enabled)
               /\ n1_start = LineStatusOf(N1EdgeIds(n), enabled)
    /\ pc = "constructed"
    /\ raised = NoError
    /\ call = NoCall
    /\ result = NoResult
    /\ first_call = NoCall
    /\ first_result = NoResult
    /\ others = FALSE
    /\ PgmIdle
    /\ n1_pc = "ready"
    /\ line_id_disconnect = NoValue
    /\ n1_raised = NoError
    /\ alternative_lines = NoResult
    /\ n1_asked = FALSE
    /\ n1_updates = <<>>
    /\ n1_runs = <<>>
    /\ result_table = <<>>

\* One call n_1_model.n_1_calculation(line): with find_alternative_edges as it
\* stands, and as its docstring has it.
N1Calculation ==
    /\ n1_pc = "ready"
    /\ \E line \in N1LinePool :
         \E alternatives \in {find_alternative_edges(line),
                              find_alternative_edges_documented(line)} :
           LET r == n_1_calculation(line, alternatives)
           IN  /\ line_id_disconnect' = line
               /\ n1_pc' = IF r.raised = NoError THEN "returned" ELSE "raised"
               /\ n1_raised' = r.raised
               /\ line_status' = r.m.status
               /\ alternative_lines' = IF r.asked THEN alternatives ELSE NoResult
               /\ n1_asked' = r.asked
               /\ n1_updates' = r.m.updates
               /\ n1_runs' = r.m.runs
               /\ result_table' = r.table
    /\ UNCHANGED <<fields, pc, raised, call, result, history, pgm, n1_start>>

NextN1 == N1Calculation

SpecN1 == InitN1 /\ [][NextN1]_vars

---------------------------------------------------------------------------
(* The claims.                                                             *)

\* C1: whenever the arguments violate one of the rules 1-9, the constructor
\* raises the error of the lowest-numbered violated rule.
C1_FirstViolatedRuleWins ==
    (ConstructionEnded /\ FirstViolatedRuleError # "none")
        => raised.kind = FirstViolatedRuleError

\* C2: arguments that pass rules 1-7 and whose edges (enabled or not) do not
\* join every vertex id to every other raise GraphNotFullyConnectedError, so
\* a constructed GraphProcessor has every vertex joined to every other.
C2_DisconnectedIsRejected ==
    /\ (ConstructionEnded /\ ~Rules1to7 /\ Rule8)
            => raised.kind = "GraphNotFullyConnectedError"
    /\ Constructed => ~Rule8

\* C3: a constructed GraphProcessor has no cycle among its enabled edges,
\* each counted on its own, hence at most |vertices| - 1 enabled edges; and
\* arguments that pass rules 1-8 with such a cycle raise GraphCycleError.
C3_ActiveViewIsAcyclic ==
    /\ Constructed => (~Rule9 /\ Cardinality(EnabledIdx) <= Cardinality(V) - 1)
    /\ (ConstructionEnded /\ ~Rules1to8 /\ Rule9) => raised.kind = "GraphCycleError"

\* C4: the constructor raises only when a rule 1-9 is violated and then only
\* an error of the taxonomy; arguments that violate no rule are constructed.
C4_OnlyTaxonomyErrors ==
    ConstructionEnded =>
        /\ raised.kind \in Taxonomy \cup {"none"}
        /\ raised.kind # "none" => Rules1to9
        /\ ~Rules1to9 => Constructed

\* C5: on an enabled edge of a graph whose active view is a spanning tree,
\* find_downstream_vertices returns, each once, exactly the vertices the
\* source does not reach when the edge is left out.
C5_DownstreamOfEnabledEdge ==
    (CalledOnEnabledEdge("find_downstream_vertices") /\ ActiveViewIsSpanningTree)
        => /\ result.kind = "list"
           /\ IsListOfSet(result.value, DownstreamOf(IndexOf(call.arg)))

\* C6: on an enabled edge, find_alternative_edges returns exactly the
\* disabled edges that cross the cut the edge's removal makes, in ascending
\* order of edge id (the empty list when none crosses).
C6_AlternativesCrossTheCut ==
    CalledOnEnabledEdge("find_alternative_edges")
        => /\ result.kind = "list"
           /\ IsListOfSet(result.value, AlternativesOf(IndexOf(call.arg)))
           /\ IsAscending(result.value)

\* C7: find_downstream_vertices on an existing, disabled edge returns the
\* empty list.
C7_DownstreamOfDisabledEdgeIsEmpty ==
    CalledOnDisabledEdge("find_downstream_vertices")
        => (result.kind = "list" /\ result.value = <<>>)

\* C8: find_alternative_edges on an existing, disabled edge raises
\* EdgeAlreadyDisabledError.
C8_AlternativesOfDisabledEdgeRaises ==
    CalledOnDisabledEdge("find_alternative_edges")
        => (result.kind = "raise" /\ result.error = "EdgeAlreadyDisabledError")

\* C9: either query with an id that is not an edge id (a vertex id
\* included) raises IDNotFoundError.
C9_UnknownEdgeIdRaises ==
    ((Called("find_downstream_vertices") \/ Called("find_alternative_edges"))
        /\ ~IsEdgeId(call.arg))
        => (result.kind = "raise" /\ result.error = "IDNotFoundError")

\* C10: arguments that pass rules 1-4 and have an endpoint that is no vertex
\* id raise IDNotFoundError, and the id the error names is absent from the
\* vertex ids: it belongs to the first pair with an absent endpoint and is
\* that pair's first element if absent, its second element otherwise.
FirstAbsentIdx == CHOOSE i \in AllIdx : EndpointAbsent(i) /\ \A j \in 1..(i - 1) : ~EndpointAbsent(j)
C10_MissingEndpointIsNamed ==
    (ConstructionEnded /\ ~Rules1to4 /\ Rule5)
        => /\ raised.kind = "IDNotFoundError"
           /\ raised.value \notin V
           /\ raised.value =
                IF edge_vertex_id_pairs[FirstAbsentIdx][1] \notin V
                THEN edge_vertex_id_pairs[FirstAbsentIdx][1]
                ELSE edge_vertex_id_pairs[FirstAbsentIdx][2]

\* C10's case: the first pair is sound, the second has its first element
\* among the vertex ids and its second element absent, which the error names.
C10_Witness ==
    /\ pc = "failed"
    /\ ~Rules1to4
    /\ Len(edge_vertex_id_pairs) = 2
    /\ ~EndpointAbsent(1)
    /\ edge_vertex_id_pairs[2][1] \in V
    /\ edge_vertex_id_pairs[2][2] \notin V
    /\ raised = Error("IDNotFoundError", edge_vertex_id_pairs[2][2])

\* C11: a query, whether it returns or raises, leaves the five fields and
\* both graphs as they were, and a query that repeats the first query made
\* on the object gives what the first gave, whatever was asked in between.
C11_QueriesAreReadOnly ==
    [][Constructed =>
          /\ UNCHANGED fields
          /\ Constructed'
          /\ (call' = first_call => result' = first_result)]_vars

\* C11's case: the first query has been repeated after a different query,
\* and gave the same again.
C11_Witness ==
    /\ Constructed
    /\ first_call # NoCall
    /\ others
    /\ call = first_call
    /\ result = first_result

\* C12: with valid network data, profiles whose load ids differ raise
\* ProfilesNotMatchingError (about the load ids, whatever the timestamps),
\* profiles with the same load ids and different timestamps raise
\* ProfilesNotMatchingError (about the timestamps), in both cases before a
\* batch dataset is built or a power flow is run; with invalid network data
\* the validation error comes first.
PgmEnded == pgm_pc \in {"returned", "raised"}
LoadIdsDiffer == SetOf(pgm_args.active_columns) # SetOf(pgm_args.reactive_columns)
TimestampsDiffer == pgm_args.active_index # pgm_args.reactive_index
NoBatchNoPowerFlow ==
    /\ "initialize_array" \notin SetOf(pgm_steps)
    /\ "calculate_power_flow" \notin SetOf(pgm_steps)
C12_MismatchedProfilesRejected ==
    PgmEnded =>
        /\ (pgm_args.input_valid /\ LoadIdsDiffer)
                => (pgm_raised = Error("ProfilesNotMatchingError", 1) /\ NoBatchNoPowerFlow)
        /\ (pgm_args.input_valid /\ pgm_args.active_columns = pgm_args.reactive_columns
              /\ TimestampsDiffer)
                => (pgm_raised = Error("ProfilesNotMatchingError", 2) /\ NoBatchNoPowerFlow)
        /\ ~pgm_args.input_valid => pgm_raised.kind = "ValidationException"
        /\ pgm_raised.kind = "ProfilesNotMatchingError"
                => (Len(pgm_steps) > 0 /\ pgm_steps[1] = "assert_valid_input_data")

N1Ended == n1_pc \in {"returned", "raised"}
ChangedLines(status) == {id \in DOMAIN n1_start : status[id] # n1_start[id]}

N1Untouched ==
    /\ n1_updates = <<>>
    /\ ~n1_asked
    /\ n1_runs = <<>>
    /\ line_status = n1_start

\* C14: n_1_calculation checks its argument before it touches the power-flow
\* model: a line id that is not in edge_ids raises InvalidLineIDError, a line
\* whose edge is disabled raises LineNotConnectedError, and in both cases no
\* update_model call, no find_alternative_edges call and no power-flow run
\* has been made and every line status is as it was.
C14_ArgumentCheckedBeforeModelTouched ==
    N1Ended =>
      /\ line_id_disconnect \notin SetOf(edge_ids)
           => n1_raised = Error("InvalidLineIDError", line_id_disconnect) /\ N1Untouched
      /\ (IsEdgeId(line_id_disconnect) /\ ~edge_enabled[IndexOf(line_id_disconnect)])
           => n1_raised = Error("LineNotConnectedError", line_id_disconnect) /\ N1Untouched
      /\ n1_raised.kind \in {"InvalidLineIDError", "LineNotConnectedError"}
           => N1Untouched

\* n_1_calculation was called on a line that is out of service, in a network
\* that has lines in service too.
C14_Witness ==
    /\ n1_pc = "raised"
    /\ n1_raised = Error("LineNotConnectedError", line_id_disconnect)
    /\ IsEdgeId(line_id_disconnect)
    /\ \E id \in DOMAIN n1_start : n1_start[id] = 1
    /\ N1Untouched

====
